---- MODULE Spec2Model ----
(***************************************************************************)
(* Orphan chunk-state-witness handling of the client                       *)
(* (chain/client/src/stateless_validation/chunk_validator/                 *)
(* orphan_witness_handling.rs).                                            *)
(*                                                                         *)
(* The client runs one handler at a time, to completion.  A step of the    *)
(* model is one whole invocation of a handler; the invocation, with the    *)
(* answers its collaborators gave and what it returned, is kept in `call`  *)
(* until the caller takes the result (Return).                             *)
(***************************************************************************)
EXTENDS Integers, Sequences, FiniteSets, TLC

\* ------------------------------------------------------------------ bounds
\* Largest chain-head height of the model.
MaxHead == 1
\* Longest sequence of candidate epochs the epoch manager returns.
MaxEpochs == 2

\* --------------------------------------------------------------- constants
\* ALLOWED_ORPHAN_WITNESS_DISTANCE_FROM_HEAD: Range<BlockHeight> = 2..6
ALLOWED_DISTANCE_START == 2
ALLOWED_DISTANCE_END == 6
\* MAX_ORPHAN_WITNESS_SIZE = ByteSize::mb(40), in bytes
MAX_ORPHAN_WITNESS_SIZE == 40000000
\* Capacity of the orphan pool in bytes (left to the implementer by the design).
POOL_CAPACITY == 40000000

\* ----------------------------------------------------------------- domains
Heights == 0..(MaxHead + ALLOWED_DISTANCE_END)
\* The hashes of the blocks witnesses wait for.
BlockHashes == {"A", "B"}
\* Serialized sizes a witness may have: half the limit, the limit, one more.
WitnessSizes ==
    {MAX_ORPHAN_WITNESS_SIZE \div 2, MAX_ORPHAN_WITNESS_SIZE, MAX_ORPHAN_WITNESS_SIZE + 1}
\* A ChunkStateWitness: the header fields the handlers read, and the length of
\* its borsh encoding.
Witnesses == [height : Heights, prev_block_hash : BlockHashes, bytes : WitnessSizes]

\* What the epoch manager answers about one witness in one epoch:
\* get_shard_layout(epoch).shard_ids().contains(shard),
\* get_chunk_validator_assignments(epoch, shard, height).contains(me),
\* verify_chunk_state_witness_signature_in_epoch(witness, epoch).
AllEpochViews ==
    [shard_layout : {"has", "lacks", "err"},
     assignments : {"has", "lacks", "err"},
     signature : {"valid", "invalid", "err"}]
\* The views the handlers are exercised with: one that passes the validation
\* and two that fail it with different errors.
EpochViews ==
    {[shard_layout |-> "has", assignments |-> "has", signature |-> "valid"],
     [shard_layout |-> "lacks", assignments |-> "has", signature |-> "valid"],
     [shard_layout |-> "has", assignments |-> "has", signature |-> "invalid"]}

RECURSIVE SeqsUpTo(_, _)
SeqsUpTo(S, n) ==
    IF n = 0 THEN {<< >>}
    ELSE LET shorter == SeqsUpTo(S, n - 1)
         IN shorter \cup {Append(s, x) : s \in {t \in shorter : Len(t) = n - 1}, x \in S}

\* What possible_epochs_of_height_around_tip may return: the candidate epochs in
\* its order, each given by the epoch manager's answers for it.
PossibleEpochs == SeqsUpTo(EpochViews, MaxEpochs)

VARIABLES orphan_witness_pool, pool_size, head, my_signer, call, processed, ledger

vars == <<orphan_witness_pool, pool_size, head, my_signer, call, processed, ledger>>

\* ------------------------------------------------------------ result values
OkUnit == "Ok"
ErrInvalidShard == "InvalidChunkStateWitness(Invalid shard_id)"
ErrNotAValidator == "NotAValidator"
ErrNotAChunkValidator == "NotAChunkValidator"
ErrInvalidSignature == "InvalidChunkStateWitness(Invalid signature)"
ErrEpochManager == "EpochError"
ErrChainHead == "Other(chain head)"
ErrSerialize == "IOError(borsh)"
ErrSizeConversion == "Other(Cannot convert witness size to u64)"
ErrNoEpoch == "Other(Couldn't find any matching EpochId)"
NoResult == "None"

\* HandleOrphanWitnessOutcome and Result<HandleOrphanWitnessOutcome, Error>
SavedToPool ==
    [kind |-> "SavedToPool", size |-> 0, head_height |-> 0, witness_height |-> 0, err |-> NoResult]
TooBig(n) ==
    [kind |-> "TooBig", size |-> n, head_height |-> 0, witness_height |-> 0, err |-> NoResult]
TooFarFromHead(h, w) ==
    [kind |-> "TooFarFromHead", size |-> 0, head_height |-> h, witness_height |-> w, err |-> NoResult]
Err(e) ==
    [kind |-> "Err", size |-> 0, head_height |-> 0, witness_height |-> 0, err |-> e]

\* ------------------------------------------------------- OrphanStateWitnessPool
\* An entry is the witness with the byte size given at admission, under a key.
PoolEntry(k, w, n) == [key |-> k, witness |-> w, size |-> n]

RECURSIVE SumSizes(_)
SumSizes(entries) ==
    IF entries = << >> THEN 0 ELSE Head(entries).size + SumSizes(Tail(entries))

RECURSIVE EvictOldest(_, _, _, _)
\* Drops entries from the front (the oldest) until `need` more bytes fit.
EvictOldest(entries, total, need, evicted) ==
    IF entries = << >> \/ total + need <= POOL_CAPACITY
    THEN [entries |-> entries, total |-> total, evicted |-> evicted]
    ELSE EvictOldest(Tail(entries), total - Head(entries).size, need,
                     Append(evicted, Head(entries).witness))

\* add_orphan_state_witness(witness, witness_size): the entries and the running
\* total afterwards, and the witnesses evicted to make room.
add_orphan_state_witness(entries, total, w, n) ==
    LET freed == EvictOldest(entries, total, n, << >>)
    IN IF freed.total + n <= POOL_CAPACITY
       THEN [entries |-> Append(freed.entries, PoolEntry(w.prev_block_hash, w, n)),
             total |-> freed.total + n,
             evicted |-> freed.evicted]
       ELSE freed

\* take_state_witnesses_waiting_for_block(block_hash): the entries and the
\* running total afterwards, and the witnesses taken out.
take_state_witnesses_waiting_for_block(entries, total, b) ==
    LET Waiting(e) == e.key = b
        Other(e) == e.key # b
        taken == SelectSeq(entries, Waiting)
    IN [entries |-> SelectSeq(entries, Other),
        total |-> total - SumSizes(taken),
        ready |-> [i \in 1..Len(taken) |-> taken[i].witness]]

\* remove_witnesses_below_final_height(final_height): the entries and the
\* running total afterwards, and the witnesses removed.
remove_witnesses_below_final_height(entries, total, final_height) ==
    LET Below(e) == e.witness.height < final_height
        Stays(e) == ~Below(e)
        gone == SelectSeq(entries, Below)
    IN [entries |-> SelectSeq(entries, Stays),
        total |-> total - SumSizes(gone),
        removed |-> [i \in 1..Len(gone) |-> gone[i].witness]]

\* ----------------------------------------------------------------- handlers
\* witness_height.saturating_sub(chain_head.height) on u64
saturating_sub(a, b) == IF a >= b THEN a - b ELSE 0

\* Mutant: the window taken to start at head + 1.
InAllowedDistance_from_one(d) == 1 <= d /\ d < ALLOWED_DISTANCE_END

\* Mutant: the window taken as the closed range 2..=6.
InAllowedDistance_closed_range(d) == ALLOWED_DISTANCE_START <= d /\ d <= ALLOWED_DISTANCE_END

\* ALLOWED_ORPHAN_WITNESS_DISTANCE_FROM_HEAD.contains(&head_distance)
InAllowedDistance(d) == ALLOWED_DISTANCE_START <= d /\ d < ALLOWED_DISTANCE_END

\* Mutant: the limit is one byte too high.
ExceedsMaxSize_one_more(n) == n > MAX_ORPHAN_WITNESS_SIZE + 1

\* Mutant: the limit taken as ByteSize::mib(40).
ExceedsMaxSize_mib(n) == n > 40 * 1048576

\* witness_size_u64 > MAX_ORPHAN_WITNESS_SIZE.as_u64()
ExceedsMaxSize(n) == n > MAX_ORPHAN_WITNESS_SIZE

\* Mutant: the signer is looked for before the shard is validated.
partially_validate_orphan_witness_in_epoch_signer_first(view, signer) ==
    IF ~signer THEN ErrNotAValidator
    ELSE IF view.shard_layout = "err" THEN ErrEpochManager
    ELSE IF view.shard_layout = "lacks" THEN ErrInvalidShard
    ELSE IF view.assignments = "err" THEN ErrEpochManager
    ELSE IF view.assignments = "lacks" THEN ErrNotAChunkValidator
    ELSE IF view.signature = "err" THEN ErrEpochManager
    ELSE IF view.signature = "invalid" THEN ErrInvalidSignature
    ELSE OkUnit

\* partially_validate_orphan_witness_in_epoch(witness, epoch_id), the epoch
\* given by what the epoch manager answers for it.
partially_validate_orphan_witness_in_epoch(view, signer) ==
    IF view.shard_layout = "err" THEN ErrEpochManager
    ELSE IF view.shard_layout = "lacks" THEN ErrInvalidShard
    ELSE IF ~signer THEN ErrNotAValidator
    ELSE IF view.assignments = "err" THEN ErrEpochManager
    ELSE IF view.assignments = "lacks" THEN ErrNotAChunkValidator
    ELSE IF view.signature = "err" THEN ErrEpochManager
    ELSE IF view.signature = "invalid" THEN ErrInvalidSignature
    ELSE OkUnit

RECURSIVE epoch_validation_result_first_error(_, _, _)
\* Mutant: the loop keeps the error of the first failing epoch.
epoch_validation_result_first_error(possible_epochs, signer, acc) ==
    IF possible_epochs = << >> THEN acc
    ELSE LET r == partially_validate_orphan_witness_in_epoch(Head(possible_epochs), signer)
         IN IF r = OkUnit THEN OkUnit
            ELSE epoch_validation_result_first_error(
                     Tail(possible_epochs), signer, IF acc = NoResult THEN r ELSE acc)

RECURSIVE epoch_validation_result_vacuous(_, _, _)
\* Mutant: the result starts as Some(Ok), so that no candidate epoch is success.
epoch_validation_result_vacuous(possible_epochs, signer, acc) ==
    IF possible_epochs = << >> THEN (IF acc = NoResult THEN OkUnit ELSE acc)
    ELSE LET r == partially_validate_orphan_witness_in_epoch(Head(possible_epochs), signer)
         IN IF r = OkUnit THEN OkUnit
            ELSE epoch_validation_result_vacuous(Tail(possible_epochs), signer, r)

RECURSIVE epoch_validation_result(_, _, _)
\* The loop over possible_epochs: Some(Ok) at the first success (break), else
\* the result of the epoch tried last; None when there is no epoch.
epoch_validation_result(possible_epochs, signer, acc) ==
    IF possible_epochs = << >> THEN acc
    ELSE LET r == partially_validate_orphan_witness_in_epoch(Head(possible_epochs), signer)
         IN IF r = OkUnit THEN OkUnit
            ELSE epoch_validation_result(Tail(possible_epochs), signer, r)

\* The environment of one call of handle_orphan_state_witness: what
\* self.chain.head(), borsh::to_vec(..).len().try_into() and
\* possible_epochs_of_height_around_tip answer.
HandleEnvs ==
    [head_ok : BOOLEAN,
     serialize : {"ok", "io_err", "conv_err"},
     epochs_ok : BOOLEAN,
     possible_epochs : PossibleEpochs]

\* Mutant: the pool is told the size limit instead of the witness's size.
save_orphan_witness_with_limit(entries, total, w, witness_size) ==
    add_orphan_state_witness(entries, total, w, MAX_ORPHAN_WITNESS_SIZE)

\* "Orphan witness is OK, save it to the pool"
save_orphan_witness(entries, total, w, witness_size) ==
    add_orphan_state_witness(entries, total, w, witness_size)

\* Mutant: the witness is saved to the pool before it is validated.
handle_orphan_state_witness_save_first(entries, total, chain_head, signer, w, env) ==
    LET unchanged == [entries |-> entries, total |-> total, evicted |-> << >>]
        head_distance == saturating_sub(w.height, chain_head)
        witness_size == w.bytes
        validation == epoch_validation_result(env.possible_epochs, signer, NoResult)
        saved == save_orphan_witness(entries, total, w, witness_size)
    IN IF ~env.head_ok
       THEN [result |-> Err(ErrChainHead), pool |-> unchanged]
       ELSE IF ~InAllowedDistance(head_distance)
       THEN [result |-> TooFarFromHead(chain_head, w.height), pool |-> unchanged]
       ELSE IF env.serialize = "io_err"
       THEN [result |-> Err(ErrSerialize), pool |-> unchanged]
       ELSE IF env.serialize = "conv_err"
       THEN [result |-> Err(ErrSizeConversion), pool |-> unchanged]
       ELSE IF ExceedsMaxSize(witness_size)
       THEN [result |-> TooBig(witness_size), pool |-> unchanged]
       ELSE IF ~env.epochs_ok
       THEN [result |-> Err(ErrEpochManager), pool |-> saved]
       ELSE IF validation = NoResult
       THEN [result |-> Err(ErrNoEpoch), pool |-> saved]
       ELSE IF validation # OkUnit
       THEN [result |-> Err(validation), pool |-> saved]
       ELSE [result |-> SavedToPool, pool |-> saved]

\* Mutant: the witness is measured before its distance from the head is looked at.
handle_orphan_state_witness_size_first(entries, total, chain_head, signer, w, env) ==
    LET unchanged == [entries |-> entries, total |-> total, evicted |-> << >>]
        head_distance == saturating_sub(w.height, chain_head)
        witness_size == w.bytes
        validation == epoch_validation_result(env.possible_epochs, signer, NoResult)
    IN IF ~env.head_ok
       THEN [result |-> Err(ErrChainHead), pool |-> unchanged]
       ELSE IF env.serialize = "io_err"
       THEN [result |-> Err(ErrSerialize), pool |-> unchanged]
       ELSE IF env.serialize = "conv_err"
       THEN [result |-> Err(ErrSizeConversion), pool |-> unchanged]
       ELSE IF ExceedsMaxSize(witness_size)
       THEN [result |-> TooBig(witness_size), pool |-> unchanged]
       ELSE IF ~InAllowedDistance(head_distance)
       THEN [result |-> TooFarFromHead(chain_head, w.height), pool |-> unchanged]
       ELSE IF ~env.epochs_ok
       THEN [result |-> Err(ErrEpochManager), pool |-> unchanged]
       ELSE IF validation = NoResult
       THEN [result |-> Err(ErrNoEpoch), pool |-> unchanged]
       ELSE IF validation # OkUnit
       THEN [result |-> Err(validation), pool |-> unchanged]
       ELSE [result |-> SavedToPool,
             pool |-> save_orphan_witness(entries, total, w, witness_size)]

\* handle_orphan_state_witness(witness): the result and the pool afterwards.
handle_orphan_state_witness(entries, total, chain_head, signer, w, env) ==
    LET unchanged == [entries |-> entries, total |-> total, evicted |-> << >>]
        head_distance == saturating_sub(w.height, chain_head)
        witness_size == w.bytes
        validation == epoch_validation_result(env.possible_epochs, signer, NoResult)
    IN IF ~env.head_ok
       THEN [result |-> Err(ErrChainHead), pool |-> unchanged]
       ELSE IF ~InAllowedDistance(head_distance)
       THEN [result |-> TooFarFromHead(chain_head, w.height), pool |-> unchanged]
       ELSE IF env.serialize = "io_err"
       THEN [result |-> Err(ErrSerialize), pool |-> unchanged]
       ELSE IF env.serialize = "conv_err"
       THEN [result |-> Err(ErrSizeConversion), pool |-> unchanged]
       ELSE IF ExceedsMaxSize(witness_size)
       THEN [result |-> TooBig(witness_size), pool |-> unchanged]
       ELSE IF ~env.epochs_ok
       THEN [result |-> Err(ErrEpochManager), pool |-> unchanged]
       ELSE IF validation = NoResult
       THEN [result |-> Err(ErrNoEpoch), pool |-> unchanged]
       ELSE IF validation # OkUnit
       THEN [result |-> Err(validation), pool |-> unchanged]
       ELSE [result |-> SavedToPool,
             pool |-> save_orphan_witness(entries, total, w, witness_size)]

RECURSIVE process_ready_witnesses_stop_on_error(_, _, _)
\* Mutant: the loop ends at the first witness whose processing fails.
process_ready_witnesses_stop_on_error(ready, b, pipeline) ==
    IF ready = << >> THEN << >>
    ELSE <<[witness |-> Head(ready), block |-> b, ok |-> Head(pipeline)]>>
         \o IF Head(pipeline)
            THEN process_ready_witnesses_stop_on_error(Tail(ready), b, Tail(pipeline))
            ELSE << >>

RECURSIVE process_ready_witnesses_but_last(_, _, _)
\* Mutant: the loop leaves out the last ready witness.
process_ready_witnesses_but_last(ready, b, pipeline) ==
    IF Len(ready) <= 1 THEN << >>
    ELSE <<[witness |-> Head(ready), block |-> b, ok |-> Head(pipeline)]>>
         \o process_ready_witnesses_but_last(Tail(ready), b, Tail(pipeline))

RECURSIVE process_ready_witnesses_twice(_, _, _)
\* Mutant: the loop works on a copy of each ready witness and hands it over twice.
process_ready_witnesses_twice(ready, b, pipeline) ==
    IF ready = << >> THEN << >>
    ELSE <<[witness |-> Head(ready), block |-> b, ok |-> Head(pipeline)],
           [witness |-> Head(ready), block |-> b, ok |-> Head(pipeline)]>>
         \o process_ready_witnesses_twice(Tail(ready), b, Tail(pipeline))

RECURSIVE process_ready_witnesses(_, _, _)
\* The loop over ready_witnesses: each is handed to
\* process_chunk_state_witness_with_prev_block(witness, new_block, None); an
\* Err is logged and the loop goes on.  The calls made, in order.
process_ready_witnesses(ready, b, pipeline) ==
    IF ready = << >> THEN << >>
    ELSE <<[witness |-> Head(ready), block |-> b, ok |-> Head(pipeline)]>>
         \o process_ready_witnesses(Tail(ready), b, Tail(pipeline))

\* What self.chain.get_block_header(new_block.header().last_final_block())
\* may answer: an error, or a header with its height.
FinalAnswers ==
    {[final_ok |-> FALSE, final_height |-> 0]}
    \cup {[final_ok |-> TRUE, final_height |-> h] : h \in Heights}
\* The environments of one call of process_ready_orphan_witnesses_and_clean_old
\* with n ready witnesses: the answer `final` for the last final block, and
\* whether the processing of each ready witness returns Ok.
ProcessEnvs(n, final) ==
    [final_ok : {final.final_ok}, final_height : {final.final_height},
     pipeline : [1..n -> BOOLEAN]]

\* Mutant: the ready witnesses are read from the pool and left in it.
process_ready_orphan_witnesses_and_clean_old_keeping(entries, total, b, env) ==
    LET taken == take_state_witnesses_waiting_for_block(entries, total, b)
        dispatched == process_ready_witnesses(taken.ready, b, env.pipeline)
        cleaned == remove_witnesses_below_final_height(entries, total, env.final_height)
    IN IF ~env.final_ok
       THEN [dispatched |-> dispatched, pruned |-> FALSE, removed |-> << >>,
             entries |-> entries, total |-> total]
       ELSE [dispatched |-> dispatched, pruned |-> TRUE, removed |-> cleaned.removed,
             entries |-> cleaned.entries, total |-> cleaned.total]

\* Mutant: the handler returns early when no witness waits for the block.
process_ready_orphan_witnesses_and_clean_old_early_return(entries, total, b, env) ==
    LET taken == take_state_witnesses_waiting_for_block(entries, total, b)
        dispatched == process_ready_witnesses(taken.ready, b, env.pipeline)
        cleaned == remove_witnesses_below_final_height(
                       taken.entries, taken.total, env.final_height)
    IN IF ~env.final_ok \/ taken.ready = << >>
       THEN [dispatched |-> dispatched, pruned |-> FALSE, removed |-> << >>,
             entries |-> taken.entries, total |-> taken.total]
       ELSE [dispatched |-> dispatched, pruned |-> TRUE, removed |-> cleaned.removed,
             entries |-> cleaned.entries, total |-> cleaned.total]

\* Mutant: the pool is pruned up to and including the final height.
process_ready_orphan_witnesses_and_clean_old_off_by_one(entries, total, b, env) ==
    LET taken == take_state_witnesses_waiting_for_block(entries, total, b)
        dispatched == process_ready_witnesses(taken.ready, b, env.pipeline)
        cleaned == remove_witnesses_below_final_height(
                       taken.entries, taken.total, env.final_height + 1)
    IN IF ~env.final_ok
       THEN [dispatched |-> dispatched, pruned |-> FALSE, removed |-> << >>,
             entries |-> taken.entries, total |-> taken.total]
       ELSE [dispatched |-> dispatched, pruned |-> TRUE, removed |-> cleaned.removed,
             entries |-> cleaned.entries, total |-> cleaned.total]

\* Mutant: the witnesses of every block are taken out of the pool as ready.
process_ready_orphan_witnesses_and_clean_old_any_block(entries, total, b, env) ==
    LET ready == [i \in 1..Len(entries) |-> entries[i].witness]
        results == env.pipeline \o [i \in 1..Len(entries) |-> TRUE]
    IN [dispatched |-> process_ready_witnesses(ready, b, results),
        pruned |-> env.final_ok, removed |-> << >>,
        entries |-> << >>, total |-> 0]

\* Mutant: when the last final block is not found, the ready witnesses are put
\* back into the pool.
process_ready_orphan_witnesses_and_clean_old_rollback(entries, total, b, env) ==
    LET taken == take_state_witnesses_waiting_for_block(entries, total, b)
        dispatched == process_ready_witnesses(taken.ready, b, env.pipeline)
        cleaned == remove_witnesses_below_final_height(
                       taken.entries, taken.total, env.final_height)
    IN IF ~env.final_ok
       THEN [dispatched |-> dispatched, pruned |-> FALSE, removed |-> << >>,
             entries |-> entries, total |-> total]
       ELSE [dispatched |-> dispatched, pruned |-> TRUE, removed |-> cleaned.removed,
             entries |-> cleaned.entries, total |-> cleaned.total]

\* Mutant: the pool is pruned before the ready witnesses are taken out.
process_ready_orphan_witnesses_and_clean_old_prune_first(entries, total, b, env) ==
    LET cleaned == IF env.final_ok
                   THEN remove_witnesses_below_final_height(entries, total, env.final_height)
                   ELSE [entries |-> entries, total |-> total, removed |-> << >>]
        taken == take_state_witnesses_waiting_for_block(cleaned.entries, cleaned.total, b)
    IN [dispatched |-> process_ready_witnesses(taken.ready, b, env.pipeline),
        pruned |-> env.final_ok, removed |-> cleaned.removed,
        entries |-> taken.entries, total |-> taken.total]

\* process_ready_orphan_witnesses_and_clean_old(new_block): the calls of the
\* processing pipeline, whether the prune ran and what it removed, and the pool
\* afterwards.
process_ready_orphan_witnesses_and_clean_old(entries, total, b, env) ==
    LET taken == take_state_witnesses_waiting_for_block(entries, total, b)
        dispatched == process_ready_witnesses(taken.ready, b, env.pipeline)
        cleaned == remove_witnesses_below_final_height(
                       taken.entries, taken.total, env.final_height)
    IN IF ~env.final_ok
       THEN [dispatched |-> dispatched, pruned |-> FALSE, removed |-> << >>,
             entries |-> taken.entries, total |-> taken.total]
       ELSE [dispatched |-> dispatched, pruned |-> TRUE, removed |-> cleaned.removed,
             entries |-> cleaned.entries, total |-> cleaned.total]

\* ------------------------------------------------------------------- state
NoWitness == [height |-> 0, prev_block_hash |-> "none", bytes |-> 0]
NoEnv == [head_ok |-> TRUE, serialize |-> "ok", epochs_ok |-> TRUE, possible_epochs |-> << >>]
NoBlock == "none"
\* The invocation being returned: op is "none" between invocations.
\*   handle:  witness, env (a HandleEnvs), result, and evicted: the witnesses
\*            the pool evicted to make room
\*   process: block, final_ok, final_height, dispatched (the calls of the
\*            pipeline), pruned (whether the prune ran), removed (the witnesses
\*            the prune removed), and repeated: whether the handler had already
\*            run for this block since the last admission
NoCall ==
    [op |-> "none", witness |-> NoWitness, env |-> NoEnv, result |-> Err(NoResult),
     evicted |-> << >>, block |-> NoBlock, final_ok |-> FALSE, final_height |-> 0,
     dispatched |-> << >>, pruned |-> FALSE, removed |-> << >>, repeated |-> FALSE]

\* The ledger is a history of what happened to the witnesses the pool was
\* given: the head at which each was admitted, how often each was handed to the
\* pipeline, and which were pruned and which evicted.  It is kept only in the
\* specifications that start it (EntryInit), where every witness is submitted
\* at most once, so that a witness stands for one pool entry.
EntryWitnesses ==
    {w \in Witnesses : /\ w.height \in {ALLOWED_DISTANCE_START, ALLOWED_DISTANCE_START + 1}
                       /\ w.bytes = MAX_ORPHAN_WITNESS_SIZE \div 2}
NotAdmitted == 0 - 1
NoLedger ==
    [on |-> FALSE, head_at |-> << >>, dispatches |-> << >>, pruned |-> {}, evicted |-> {}]
EmptyLedger ==
    [on |-> TRUE,
     head_at |-> [w \in EntryWitnesses |-> NotAdmitted],
     dispatches |-> [w \in EntryWitnesses |-> 0],
     pruned |-> {}, evicted |-> {}]
Range(s) == {s[i] : i \in DOMAIN s}
\* How many of the pipeline calls `dispatched` were given witness w.
CallsWith(dispatched, w) ==
    LET IsW(d) == d.witness = w IN Len(SelectSeq(dispatched, IsW))
\* The ledger after a call of handle_orphan_state_witness(w) that returned `out`.
ledger_after_handle(l, w, chain_head, out) ==
    IF ~l.on \/ out.result.kind # "SavedToPool" THEN l
    ELSE [l EXCEPT !.head_at[w] = chain_head,
                   !.evicted = @ \cup Range(out.pool.evicted)]
\* The ledger after a call of process_ready_orphan_witnesses_and_clean_old.
ledger_after_process(l, out) ==
    IF ~l.on THEN l
    ELSE [l EXCEPT !.dispatches = [w \in EntryWitnesses |->
                                      @[w] + CallsWith(out.dispatched, w)],
                   !.pruned = @ \cup Range(out.removed)]

\* orphan_witness_pool, pool_size: the pool's entries, oldest first, and its
\*     running total of bytes
\* head: the height of the chain head;  my_signer: whether the node has a signer
\* call: the invocation being returned
\* processed: the blocks the new-block handler ran for since the last admission
ClientInit ==
    /\ orphan_witness_pool = << >>
    /\ pool_size = 0
    /\ head = 0
    /\ my_signer \in BOOLEAN
    /\ call = NoCall
    /\ processed = {}

Init == ClientInit /\ ledger = NoLedger

\* The environments of a call for witness w.  After a failed head lookup, a
\* witness outside the distance window or a failed serialization the remaining
\* answers are fixed (as in NoEnv), so that one such call is one record; a
\* witness inside the window comes with every answer of the epoch manager,
\* whatever its size.
EnvsFor(w) ==
    {[NoEnv EXCEPT !.head_ok = FALSE]}
    \cup
    IF ~InAllowedDistance(saturating_sub(w.height, head)) THEN {NoEnv}
    ELSE {[NoEnv EXCEPT !.serialize = s] : s \in {"io_err", "conv_err"}}
         \cup
         {[NoEnv EXCEPT !.epochs_ok = FALSE]}
         \cup {[NoEnv EXCEPT !.possible_epochs = q] : q \in PossibleEpochs}

\* One call of handle_orphan_state_witness(w) in environment env.
HandleCall(w, env) ==
    /\ call.op = "none"
    /\ LET out == handle_orphan_state_witness(
                      orphan_witness_pool, pool_size, head, my_signer, w, env)
       IN /\ orphan_witness_pool' = out.pool.entries
          /\ pool_size' = out.pool.total
          /\ call' = [NoCall EXCEPT !.op = "handle", !.witness = w, !.env = env,
                                    !.result = out.result, !.evicted = out.pool.evicted]
          /\ processed' = IF out.result.kind = "SavedToPool" THEN {} ELSE processed
          /\ ledger' = ledger_after_handle(ledger, w, head, out)
    /\ UNCHANGED <<head, my_signer>>

HandleOrphanStateWitness ==
    /\ call.op = "none"
    /\ \E w \in Witnesses : \E env \in EnvsFor(w) : HandleCall(w, env)

\* The new-block handler runs for block b, whose last final block resolves as
\* `final` says.
NewBlock(b, final) ==
    /\ call.op = "none"
    /\ LET n == Len(take_state_witnesses_waiting_for_block(
                        orphan_witness_pool, pool_size, b).ready)
       IN \E env \in ProcessEnvs(n, final) :
             /\ LET out == process_ready_orphan_witnesses_and_clean_old(
                               orphan_witness_pool, pool_size, b, env)
                IN /\ orphan_witness_pool' = out.entries
                   /\ pool_size' = out.total
                   /\ call' = [NoCall EXCEPT !.op = "process", !.block = b,
                                    !.final_ok = env.final_ok,
                                    !.final_height = env.final_height,
                                    !.dispatched = out.dispatched,
                                    !.pruned = out.pruned, !.removed = out.removed,
                                    !.repeated = b \in processed]
                   /\ processed' = processed \cup {b}
                   /\ ledger' = ledger_after_process(ledger, out)
    /\ UNCHANGED <<head, my_signer>>

ProcessReadyOrphanWitnessesAndCleanOld ==
    /\ call.op = "none"
    /\ \E b \in BlockHashes, final \in FinalAnswers : NewBlock(b, final)

\* The handler returns to the client's event loop.
Return ==
    /\ call.op # "none"
    /\ call' = NoCall
    /\ UNCHANGED <<orphan_witness_pool, pool_size, head, my_signer, processed, ledger>>

\* The chain head moves to the next height.
HeadAdvances ==
    /\ call.op = "none"
    /\ head < MaxHead
    /\ head' = head + 1
    /\ UNCHANGED <<orphan_witness_pool, pool_size, my_signer, call, processed, ledger>>

Next ==
    \/ HandleOrphanStateWitness
    \/ ProcessReadyOrphanWitnessesAndCleanOld
    \/ Return
    \/ HeadAdvances

Spec == Init /\ [][Next]_vars

\* The calls of handle_orphan_state_witness that matter to how long a witness
\* stays in the pool: every witness, with one candidate epoch that accepts it.
AdmitOrphanStateWitness ==
    /\ call.op = "none"
    /\ \E w \in Witnesses :
          HandleCall(w, [NoEnv EXCEPT !.possible_epochs = <<CHOOSE v \in EpochViews :
              partially_validate_orphan_witness_in_epoch(v, TRUE) = OkUnit>>])

LiveNext ==
    \/ AdmitOrphanStateWitness
    \/ ProcessReadyOrphanWitnessesAndCleanOld
    \/ Return
    \/ HeadAdvances

\* The height above every witness the pool can hold.
TopHeight == MaxHead + ALLOWED_DISTANCE_END

\* Every handler returns, and the last final height advances: blocks whose last
\* final block resolves to a height above every pooled witness keep arriving.
Fairness ==
    /\ WF_vars(Return)
    /\ SF_vars(\E b \in BlockHashes :
                  NewBlock(b, [final_ok |-> TRUE, final_height |-> TopHeight]))

LiveSpec == Init /\ [][LiveNext]_vars /\ Fairness

\* The life of pool entries: every witness is submitted at most once, with a
\* candidate epoch that accepts it, and the ledger is kept.  The head may move
\* up to and past the heights of the pooled witnesses.
EntryInit == ClientInit /\ ledger = EmptyLedger

AcceptingEnv ==
    [NoEnv EXCEPT !.possible_epochs = <<CHOOSE v \in EpochViews :
        partially_validate_orphan_witness_in_epoch(v, TRUE) = OkUnit>>]

SubmitOnce ==
    /\ call.op = "none"
    /\ \E w \in EntryWitnesses :
          /\ ledger.head_at[w] = NotAdmitted
          /\ HandleCall(w, AcceptingEnv)

EntryHeadAdvances ==
    /\ call.op = "none"
    /\ head < MaxHead + ALLOWED_DISTANCE_START
    /\ head' = head + 1
    /\ UNCHANGED <<orphan_witness_pool, pool_size, my_signer, call, processed, ledger>>

EntryNext ==
    \/ SubmitOnce
    \/ ProcessReadyOrphanWitnessesAndCleanOld
    \/ Return
    \/ EntryHeadAdvances

EntrySpec == EntryInit /\ [][EntryNext]_vars

\* The admission filters and the per-epoch validation against every answer of
\* the epoch manager: witnesses of every height, at the size limit and one byte
\* above it, each with no candidate epoch or one, the candidate given by any
\* combination of the epoch manager's answers, or with a failing epoch query.
ValidationWitnesses ==
    {w \in Witnesses : /\ w.prev_block_hash = "A"
                       /\ w.bytes >= MAX_ORPHAN_WITNESS_SIZE}
ValidationEnvs ==
    {[NoEnv EXCEPT !.epochs_ok = FALSE]}
    \cup {[NoEnv EXCEPT !.possible_epochs = q] : q \in SeqsUpTo(AllEpochViews, 1)}

ValidateOrphanStateWitness ==
    /\ call.op = "none"
    /\ \E w \in ValidationWitnesses : \E env \in ValidationEnvs : HandleCall(w, env)

ValidationNext ==
    \/ ValidateOrphanStateWitness
    \/ Return
    \/ HeadAdvances

ValidationSpec == Init /\ [][ValidationNext]_vars

\* ------------------------------------------------------------------ claims
\* A step that is one call of handle_orphan_state_witness.
HandleStep == call.op = "none" /\ call'.op = "handle"
\* A step that is one call of process_ready_orphan_witnesses_and_clean_old.
ProcessStep == call.op = "none" /\ call'.op = "process"
PoolUnchanged == orphan_witness_pool' = orphan_witness_pool /\ pool_size' = pool_size

\* max(0, witness_height - head_height)
HeadDistance(witness_height, head_height) ==
    IF witness_height > head_height THEN witness_height - head_height ELSE 0
OutsideWindow(d) == d < 2 \/ d >= 6
\* The call got past the head lookup and the serialization of the witness.
Measured(c) == c.env.head_ok /\ c.env.serialize = "ok"

\* C1: a witness whose head distance max(0, witness_height - head_height) is
\* outside [2, 6) gets Ok(TooFarFromHead{head_height, witness_height}) with the
\* two heights used, and the call leaves the pool as it was.
C1_TooFarFromHead ==
    [][(HandleStep /\ call'.env.head_ok
          /\ OutsideWindow(HeadDistance(call'.witness.height, head)))
       => (/\ call'.result = TooFarFromHead(head, call'.witness.height)
           /\ PoolUnchanged)]_vars

\* C1 happens: a witness below the head was turned away with a filled pool.
C1_Witness ==
    /\ call.op = "handle"
    /\ call.env.head_ok
    /\ call.witness.height < head
    /\ call.result.kind = "TooFarFromHead"
    /\ orphan_witness_pool # << >>

\* C2 as stated: every witness whose serialized size exceeds 40 MB gets
\* Ok(TooBig(size)) and the pool is unchanged.
C2_TooBigAlways ==
    [][(HandleStep /\ Measured(call') /\ call'.witness.bytes > 40000000)
       => (call'.result = TooBig(call'.witness.bytes) /\ PoolUnchanged)]_vars

\* C2 amended: a witness inside the distance window [2, 6) whose serialized size
\* exceeds 40 MB gets Ok(TooBig(size)) and the pool is unchanged, whatever the
\* epoch manager would answer about it.
C2_TooBigInWindow ==
    [][(HandleStep /\ Measured(call') /\ call'.witness.bytes > 40000000
          /\ ~OutsideWindow(HeadDistance(call'.witness.height, head)))
       => (call'.result = TooBig(call'.witness.bytes) /\ PoolUnchanged)]_vars

\* C2 happens: a too big witness that every candidate epoch would accept was
\* turned away with a filled pool.
C2_Witness ==
    /\ call.op = "handle"
    /\ call.result = TooBig(40000001)
    /\ call.env.epochs_ok
    /\ call.env.possible_epochs # << >>
    /\ \A i \in DOMAIN call.env.possible_epochs :
          partially_validate_orphan_witness_in_epoch(call.env.possible_epochs[i], my_signer)
             = OkUnit
    /\ orphan_witness_pool # << >>

\* The call got past the distance and size filters and was given candidates.
PassedFilters(c, head_height) ==
    /\ Measured(c)
    /\ ~OutsideWindow(HeadDistance(c.witness.height, head_height))
    /\ c.witness.bytes <= 40000000
    /\ c.env.epochs_ok
    /\ c.env.possible_epochs # << >>
\* The results of validating the call's witness in each candidate epoch.
EpochResults(c) ==
    [i \in DOMAIN c.env.possible_epochs |->
        partially_validate_orphan_witness_in_epoch(c.env.possible_epochs[i], my_signer)]
Holds(entries, w) == \E i \in DOMAIN entries : entries[i].witness = w

\* C3: past the filters and with a non-empty sequence of candidate epochs, a
\* witness valid in at least one candidate is saved to the pool with
\* Ok(SavedToPool); one invalid in all of them gets Err with the error of the
\* last candidate, and the pool is unchanged.
C3_FirstSuccessOrLastError ==
    [][(HandleStep /\ PassedFilters(call', head))
       => LET results == EpochResults(call')
          IN IF \E i \in DOMAIN results : results[i] = OkUnit
             THEN /\ call'.result = SavedToPool
                  /\ Holds(orphan_witness_pool', call'.witness)
             ELSE /\ call'.result = Err(results[Len(results)])
                  /\ PoolUnchanged]_vars

\* C3 happens: two candidates failed with different errors and the call
\* returned the second one's.
C3_Witness ==
    /\ call.op = "handle"
    /\ PassedFilters(call, head)
    /\ Len(call.env.possible_epochs) >= 2
    /\ EpochResults(call)[1] # OkUnit
    /\ EpochResults(call)[1] # EpochResults(call)[Len(call.env.possible_epochs)]
    /\ call.result = Err(EpochResults(call)[Len(call.env.possible_epochs)])
    /\ orphan_witness_pool # << >>

\* How many of the pool entries `entries` hold witness w.
Pooled(entries, w) ==
    LET IsW(e) == e.witness = w IN Len(SelectSeq(entries, IsW))
\* How many of the pipeline calls `dispatched` were given witness w.
Handed(dispatched, w) ==
    LET IsW(d) == d.witness = w IN Len(SelectSeq(dispatched, IsW))

\* C4: the new-block handler, run for block P, hands every pooled witness whose
\* previous block is P to the processing pipeline exactly once (once per
\* entry), and afterwards the pool holds no such witness.
C4_DispatchedOnceAndRemoved ==
    [][ProcessStep
       => \A i \in DOMAIN orphan_witness_pool :
             LET w == orphan_witness_pool[i].witness
             IN w.prev_block_hash = call'.block
                => /\ Handed(call'.dispatched, w) = Pooled(orphan_witness_pool, w)
                   /\ ~Holds(orphan_witness_pool', w)]_vars

\* C4 happens: the handler ran for a block, handed two witnesses to the
\* pipeline and left no witness of that block in the pool.
C4_Witness ==
    /\ call.op = "process"
    /\ Len(call.dispatched) = 2
    /\ call.dispatched[1].witness # call.dispatched[2].witness
    /\ \A i \in DOMAIN orphan_witness_pool :
          orphan_witness_pool[i].witness.prev_block_hash # call.block

\* C5: when the new-block handler runs again for a block it already ran for,
\* with no admission in between, it hands no witness to the pipeline.
C5_SecondCallDispatchesNothing ==
    [][(ProcessStep /\ call'.block \in processed) => call'.dispatched = << >>]_vars

\* C5 happens: the handler ran a second time for a block, with witnesses of
\* another block in the pool.
C5_Witness ==
    /\ call.op = "process"
    /\ call.repeated
    /\ call.dispatched = << >>
    /\ orphan_witness_pool # << >>

\* C6: after the new-block handler ran for block B whose last final block
\* resolved to height H, the pool holds no witness below H, and the entries at
\* or above H that were not waiting for B are all still there, as they were.
C6_PrunedBelowFinalHeight ==
    [][(ProcessStep /\ call'.final_ok)
       => LET Stays(e) == e.witness.height >= call'.final_height
                          /\ e.witness.prev_block_hash # call'.block
              Others(e) == e.witness.prev_block_hash # call'.block
          IN /\ \A i \in DOMAIN orphan_witness_pool' :
                   orphan_witness_pool'[i].witness.height >= call'.final_height
             /\ SelectSeq(orphan_witness_pool', Others)
                   = SelectSeq(orphan_witness_pool, Stays)]_vars

\* C6 happens: nothing was waiting for the block; one entry was pruned and one
\* stayed.
C6_Witness ==
    /\ call.op = "process"
    /\ call.final_ok
    /\ call.dispatched = << >>
    /\ Len(call.removed) = 1
    /\ Len(orphan_witness_pool) = 1
    /\ orphan_witness_pool[1].witness.height = call.final_height

\* C7: the byte sizes of the witnesses in the pool add up to the pool's running
\* total, and the total is at most the pool's capacity.
C7_PoolSizeAccounting ==
    LET bytes == [i \in DOMAIN orphan_witness_pool |->
                     [size |-> orphan_witness_pool[i].witness.bytes]]
    IN /\ SumSizes(bytes) = pool_size
       /\ SumSizes(orphan_witness_pool) = pool_size
       /\ pool_size <= POOL_CAPACITY

\* C7 happens: an admission into a full pool evicted the oldest entry and kept
\* the other.
C7_Witness ==
    /\ call.op = "handle"
    /\ call.result = SavedToPool
    /\ Len(call.evicted) = 1
    /\ Len(orphan_witness_pool) = 2
    /\ pool_size = POOL_CAPACITY

\* C9: when the processing of a ready witness fails, the new-block handler
\* still hands every witness that was waiting for the block to the pipeline,
\* and still prunes the pool by the final height.
C9_FailureDoesNotStopTheCall ==
    [][(ProcessStep /\ \E k \in DOMAIN call'.dispatched : ~call'.dispatched[k].ok)
       => /\ \A i \in DOMAIN orphan_witness_pool :
                LET w == orphan_witness_pool[i].witness
                IN w.prev_block_hash = call'.block
                   => Handed(call'.dispatched, w) = Pooled(orphan_witness_pool, w)
          /\ call'.final_ok
                => /\ call'.pruned
                   /\ \A i \in DOMAIN orphan_witness_pool' :
                         orphan_witness_pool'[i].witness.height >= call'.final_height]_vars

\* C9 happens: the first of two ready witnesses failed, the second was
\* processed and the pool was pruned.
C9_Witness ==
    /\ call.op = "process"
    /\ Len(call.dispatched) = 2
    /\ ~call.dispatched[1].ok
    /\ call.dispatched[2].ok
    /\ call.pruned

\* C10: the pipeline is called only by the new-block handler and only with
\* witnesses whose previous block is the handler's block; and a pooled witness
\* waiting for that block is handed over even when it is below the block's
\* final height.
C10_DispatchBeforePrune ==
    [][/\ HandleStep => call'.dispatched = << >>
       /\ ProcessStep
             => /\ \A k \in DOMAIN call'.dispatched :
                      /\ call'.dispatched[k].witness.prev_block_hash = call'.block
                      /\ call'.dispatched[k].block = call'.block
                /\ \A i \in DOMAIN orphan_witness_pool :
                      LET w == orphan_witness_pool[i].witness
                      IN (w.prev_block_hash = call'.block /\ call'.final_ok
                            /\ w.height < call'.final_height)
                         => Handed(call'.dispatched, w) >= 1]_vars

\* C10 happens: a witness below the block's final height was handed over.
C10_Witness ==
    /\ call.op = "process"
    /\ call.final_ok
    /\ \E k \in DOMAIN call.dispatched :
          call.dispatched[k].witness.height < call.final_height

\* C8: with blocks arriving whose last final height keeps advancing, no witness
\* stays in the pool forever: every witness is out of the pool again and again.
C8_EveryWitnessLeaves ==
    \A w \in Witnesses : []<>~Holds(orphan_witness_pool, w)

\* C8 happens: a witness whose previous block did not arrive left the pool by
\* the prune.
C8_Witness ==
    /\ call.op = "process"
    /\ call.dispatched = << >>
    /\ call.removed # << >>
    /\ call.removed[1].prev_block_hash # call.block
    /\ orphan_witness_pool = << >>

\* What the ledger says became of witness w, and how many entries of the pool
\* hold it.
Admitted(w) == ledger.head_at[w] # NotAdmitted
InPool(w) == Pooled(orphan_witness_pool, w)
Dispatched(w) == ledger.dispatches[w] >= 1
Pruned(w) == w \in ledger.pruned
Evicted(w) == w \in ledger.evicted

\* C11: an entry is admitted once and then is either still in the pool, or was
\* dispatched once, or was pruned, or was evicted, and only one of these: an
\* entry that was dispatched, pruned or evicted is not in the pool, no entry is
\* dispatched twice, and no pruned or evicted entry is dispatched.  A witness
\* that was never admitted is in none of these states.
C11_EntryLifeCycle ==
    \A w \in EntryWitnesses :
       /\ ledger.dispatches[w] <= 1
       /\ InPool(w) <= 1
       /\ IF Admitted(w)
          THEN Cardinality({k \in {"pool", "dispatched", "pruned", "evicted"} :
                               \/ k = "pool" /\ InPool(w) = 1
                               \/ k = "dispatched" /\ Dispatched(w)
                               \/ k = "pruned" /\ Pruned(w)
                               \/ k = "evicted" /\ Evicted(w)}) = 1
          ELSE InPool(w) = 0 /\ ~Dispatched(w) /\ ~Pruned(w) /\ ~Evicted(w)

\* C11 happens: one entry was dispatched, one pruned and one evicted, and a
\* fourth is in the pool.
C11_Witness ==
    /\ \E w \in EntryWitnesses : Dispatched(w)
    /\ \E w \in EntryWitnesses : Pruned(w)
    /\ \E w \in EntryWitnesses : Evicted(w)
    /\ \E w \in EntryWitnesses : InPool(w) = 1

\* C12: when the header of the block's last final block is not found, the
\* new-block handler has taken the witnesses waiting for the block out of the
\* pool and handed each to the pipeline, the prune does not run, and the pool is
\* what it was without those witnesses: every other entry is still there.
C12_FailedLookupSkipsOnlyThePrune ==
    [][(ProcessStep /\ ~call'.final_ok)
       => LET Others(e) == e.witness.prev_block_hash # call'.block
          IN /\ orphan_witness_pool' = SelectSeq(orphan_witness_pool, Others)
             /\ Len(call'.dispatched) = Len(orphan_witness_pool) - Len(orphan_witness_pool')
             /\ \A i \in DOMAIN orphan_witness_pool :
                   LET w == orphan_witness_pool[i].witness
                   IN w.prev_block_hash = call'.block
                      => Handed(call'.dispatched, w) = Pooled(orphan_witness_pool, w)
             /\ ~call'.pruned
             /\ call'.removed = << >>]_vars

\* C12 happens: the lookup failed after one witness was handed over, and an
\* entry waiting for another block stayed.
C12_Witness ==
    /\ call.op = "process"
    /\ ~call.final_ok
    /\ Len(call.dispatched) = 1
    /\ Len(orphan_witness_pool) = 1
    /\ orphan_witness_pool[1].witness.prev_block_hash # call.block

\* C13: the validation of a witness in one epoch checks, in this order, the
\* shard, the node's signer, the signer's place among the chunk validators and
\* the signature, and fails with the error of the first check that fails,
\* whatever the later checks would say; it succeeds only when all four pass.
\* (Seen through a call with that epoch as the only candidate.)
C13_ChecksInOrder ==
    [][(HandleStep /\ PassedFilters(call', head) /\ Len(call'.env.possible_epochs) = 1)
       => LET v == call'.env.possible_epochs[1]
              r == call'.result
          IN /\ v.shard_layout = "lacks" => r = Err(ErrInvalidShard)
             /\ (v.shard_layout = "has" /\ ~my_signer) => r = Err(ErrNotAValidator)
             /\ (v.shard_layout = "has" /\ my_signer /\ v.assignments = "lacks")
                   => r = Err(ErrNotAChunkValidator)
             /\ (v.shard_layout = "has" /\ my_signer /\ v.assignments = "has"
                   /\ v.signature = "invalid")
                   => r = Err(ErrInvalidSignature)
             /\ r = SavedToPool
                   <=> (v.shard_layout = "has" /\ my_signer /\ v.assignments = "has"
                          /\ v.signature = "valid")]_vars

\* C13 happens: a node without a signer was given a witness with an invalid
\* shard and a bad signature, and answered with the invalid shard.
C13_Witness ==
    /\ call.op = "handle"
    /\ ~my_signer
    /\ Len(call.env.possible_epochs) = 1
    /\ call.env.possible_epochs[1].shard_layout = "lacks"
    /\ call.env.possible_epochs[1].signature = "invalid"
    /\ call.result = Err(ErrInvalidShard)

\* C19: the admission filters apply in the order distance, size, validation in
\* the candidate epochs, and the first that rejects decides the kind of result:
\* TooFarFromHead outside the window whatever the size and the epochs,
\* TooBig inside the window above the limit whatever the epochs, Err when no
\* candidate epoch accepts, SavedToPool otherwise.
C19_FiltersInOrder ==
    [][(HandleStep /\ Measured(call'))
       => LET far == OutsideWindow(HeadDistance(call'.witness.height, head))
              big == call'.witness.bytes > 40000000
              invalid == \/ ~call'.env.epochs_ok
                         \/ \A i \in DOMAIN call'.env.possible_epochs :
                               EpochResults(call')[i] # OkUnit
          IN call'.result.kind = IF far THEN "TooFarFromHead"
                                 ELSE IF big THEN "TooBig"
                                 ELSE IF invalid THEN "Err"
                                 ELSE "SavedToPool"]_vars

\* C19 happens: a witness outside the window, above the size limit and invalid
\* in its only candidate epoch was answered TooFarFromHead.
C19_Witness ==
    /\ call.op = "handle"
    /\ call.witness.bytes > 40000000
    /\ Len(call.env.possible_epochs) = 1
    /\ EpochResults(call)[1] # OkUnit
    /\ call.result = TooFarFromHead(head, call.witness.height)

\* C14: a witness past the distance and size filters for which the epoch
\* manager returns no candidate epoch gets the Err 'no matching EpochId', which
\* is none of the validation errors, and the pool is left as it was.
C14_NoCandidateEpoch ==
    [][(HandleStep /\ Measured(call')
          /\ ~OutsideWindow(HeadDistance(call'.witness.height, head))
          /\ call'.witness.bytes <= 40000000
          /\ call'.env.epochs_ok /\ call'.env.possible_epochs = << >>)
       => /\ call'.result = Err(ErrNoEpoch)
          /\ call'.result.err \notin {ErrInvalidShard, ErrNotAValidator, ErrNotAChunkValidator,
                                      ErrInvalidSignature, ErrEpochManager}
          /\ PoolUnchanged]_vars

\* C14 happens: a call ended with 'no matching EpochId', with a filled pool.
C14_Witness ==
    /\ call.op = "handle"
    /\ call.env.epochs_ok
    /\ call.env.possible_epochs = << >>
    /\ call.result = Err(ErrNoEpoch)
    /\ orphan_witness_pool # << >>

C17_KeyedByPrevBlock ==
    /\ \A i \in DOMAIN orphan_witness_pool :
          orphan_witness_pool[i].key = orphan_witness_pool[i].witness.prev_block_hash
    /\ call.op = "process"
          => \A k \in DOMAIN call.dispatched :
                /\ call.dispatched[k].witness.prev_block_hash = call.block
                /\ call.dispatched[k].block = call.block

\* C17 happens: the handler ran for a block, handed over the witness waiting
\* for it and left the witness waiting for the other block in the pool.
C17_Witness ==
    /\ call.op = "process"
    /\ call.final_ok
    /\ Len(call.dispatched) = 1
    /\ orphan_witness_pool # << >>
    /\ \A i \in DOMAIN orphan_witness_pool : orphan_witness_pool[i].key # call.block

\* C18 as stated: a call of handle_orphan_state_witness changes the pool if and
\* only if it returns SavedToPool, and it removes no entry and hands nothing to
\* the pipeline.
C18_HandleRemovesNothing ==
    [][HandleStep
       => /\ call'.result.kind # "SavedToPool" => PoolUnchanged
          /\ call'.result.kind = "SavedToPool" => orphan_witness_pool' # orphan_witness_pool
          /\ Len(orphan_witness_pool') >= Len(orphan_witness_pool)
          /\ SubSeq(orphan_witness_pool', 1, Len(orphan_witness_pool)) = orphan_witness_pool
          /\ call'.dispatched = << >>]_vars

\* C18 amended: a call of handle_orphan_state_witness changes the pool if and
\* only if it returns SavedToPool; then the pool is the old one, without the
\* oldest entries the pool evicted to make room, with the witness appended; the
\* pool evicts only when the witness does not fit; and the call hands nothing
\* to the pipeline.
C18_HandleChangesPoolIffSaved ==
    [][HandleStep
       => /\ call'.result.kind # "SavedToPool" => PoolUnchanged /\ call'.evicted = << >>
          /\ call'.result.kind = "SavedToPool"
                => LET n == Len(call'.evicted)
                       w == call'.witness
                   IN /\ n <= Len(orphan_witness_pool)
                      /\ call'.evicted = [i \in 1..n |-> orphan_witness_pool[i].witness]
                      /\ orphan_witness_pool'
                            = Append(SubSeq(orphan_witness_pool, n + 1, Len(orphan_witness_pool)),
                                     PoolEntry(w.prev_block_hash, w, w.bytes))
                      /\ n > 0 => pool_size + w.bytes > POOL_CAPACITY
          /\ call'.dispatched = << >>
          /\ call'.removed = << >>]_vars

\* C18 happens: a witness as big as the pool was saved, and the pool evicted its
\* two entries to make room.
C18_Witness ==
    /\ call.op = "handle"
    /\ call.result = SavedToPool
    /\ Len(call.evicted) = 2
    /\ Len(orphan_witness_pool) = 1
    /\ orphan_witness_pool[1].witness = call.witness
====
